---- MODULE Spec2Model ----
(* Conway's Game of Life engine of src/main.rs: the Grid constructors        *)
(* (seed, random_grid), the generation advance (next_generation with its     *)
(* neighbour rule) and the event loop's update, which replaces the held grid *)
(* once per tick.                                                            *)
(* A Vec is a sequence; the source indexes from 0, so element i of a Vec v   *)
(* is v[i + 1]. A tuple's fields .0 and .1 are [1] and [2].                  *)
EXTENDS Integers, Sequences, FiniteSets

VARIABLES grid, phase, origin, ticks, prev, pc, new_cells, new_row

vars == <<grid, phase, origin, ticks, prev, pc, new_cells, new_row>>

(* ---------------------------------------------------------------- bounds *)

\* largest grid size the constructors are called with
MaxSize == 3
\* longest living_cells list handed to seed
MaxSeedLen == 2
\* number of update ticks followed after construction
MaxTicks == 3
\* number of next_generation calls followed push by push
MaxCalls == 1

(* ----------------------------------------------------------- data model *)

State == {"Alive", "Dead"}

\* Vec indexing v[i]: an index outside 0..len-1 panics.
InRange(v, i) == i >= 0 /\ i < Len(v)

(* ------------------------------------------------------------ Direction *)

neighbours_directions == <<"N", "NE", "E", "SE", "S", "SW", "W", "NW">>

\* a copy-paste slip: W translated like E
translation_w_as_e(direction) ==
    CASE direction = "N"  -> <<-1, 0>>
      [] direction = "NE" -> <<-1, 1>>
      [] direction = "E"  -> <<0, 1>>
      [] direction = "SE" -> <<1, 1>>
      [] direction = "S"  -> <<1, 0>>
      [] direction = "SW" -> <<1, -1>>
      [] direction = "W"  -> <<0, 1>>
      [] direction = "NW" -> <<-1, -1>>

translation(direction) ==
    CASE direction = "N"  -> <<-1, 0>>
      [] direction = "NE" -> <<-1, 1>>
      [] direction = "E"  -> <<0, 1>>
      [] direction = "SE" -> <<1, 1>>
      [] direction = "S"  -> <<1, 0>>
      [] direction = "SW" -> <<1, -1>>
      [] direction = "W"  -> <<0, -1>>
      [] direction = "NW" -> <<-1, -1>>

(* ----------------------------------------------------- neighbours_state *)

\* toroidal lookup: an off-grid position is mapped to the opposite side
neighbours_state_wrap(current_position, cells, translation_) ==
    LET size == Len(cells)
        new_position == <<(current_position[1] + translation_[1]) % size,
                          (current_position[2] + translation_[2]) % size>>
    IN  cells[new_position[1] + 1][new_position[2] + 1]

\* the two "== size" tests left out
neighbours_state_no_upper_check(current_position, cells, translation_) ==
    LET new_position == <<current_position[1] + translation_[1],
                          current_position[2] + translation_[2]>>
    IN  IF (new_position[1] < 0) \/ (new_position[2] < 0)
        THEN "Dead"
        ELSE IF InRange(cells, new_position[1])
                /\ InRange(cells[new_position[1] + 1], new_position[2])
             THEN cells[new_position[1] + 1][new_position[2] + 1]
             ELSE "Panic"

\* The state of the cell at current_position + translation; "Panic" when the
\* indexing cells[..][..] would be out of range.
neighbours_state(current_position, cells, translation_) ==
    LET new_position == <<current_position[1] + translation_[1],
                          current_position[2] + translation_[2]>>
        size == Len(cells)
    IN  IF (new_position[1] < 0) \/ (new_position[2] < 0)
           \/ (new_position[1] = size) \/ (new_position[2] = size)
        THEN "Dead"
        ELSE IF InRange(cells, new_position[1])
                /\ InRange(cells[new_position[1] + 1], new_position[2])
             THEN cells[new_position[1] + 1][new_position[2] + 1]
             ELSE "Panic"

(* -------------------------------------------- state_based_on_neighbours *)

\* the states the map over neighbours_directions yields, in order
neighbour_states(current_position, cells) ==
    [i \in 1..Len(neighbours_directions) |->
        neighbours_state(current_position, cells,
                         translation(neighbours_directions[i]))]

\* .filter(|state| *state == State::Alive).count()
count_alive(states) == Cardinality({i \in DOMAIN states : states[i] = "Alive"})

nmb_alive_neighbours(current_position, cells) ==
    count_alive(neighbour_states(current_position, cells))

\* birth on 2 or 3 neighbours instead of exactly 3
state_based_on_neighbours_birth23(current_position, cells, current_state) ==
    LET states == neighbour_states(current_position, cells)
        nmb == count_alive(states)
    IN  IF \E i \in DOMAIN states : states[i] = "Panic"
        THEN "Panic"
        ELSE IF nmb \in {2, 3} THEN "Alive" ELSE "Dead"

\* survival on 2 neighbours only
state_based_on_neighbours_survive2(current_position, cells, current_state) ==
    LET states == neighbour_states(current_position, cells)
        nmb == count_alive(states)
    IN  IF \E i \in DOMAIN states : states[i] = "Panic"
        THEN "Panic"
        ELSE IF current_state = "Alive"
             THEN (IF nmb = 2 THEN "Alive" ELSE "Dead")
             ELSE (IF nmb = 3 THEN "Alive" ELSE "Dead")

state_based_on_neighbours(current_position, cells, current_state) ==
    LET states == neighbour_states(current_position, cells)
        nmb == count_alive(states)
    IN  IF \E i \in DOMAIN states : states[i] = "Panic"
        THEN "Panic"
        ELSE IF current_state = "Alive"
             THEN (IF nmb \in {2, 3} THEN "Alive" ELSE "Dead")
             ELSE (IF nmb = 3 THEN "Alive" ELSE "Dead")

(* ----------------------------------------------------------------- Grid *)

\* the loop over living_cells: cells[position.0][position.1] = Alive,
\* panicking on the first position that is out of range
RECURSIVE seed_loop(_, _)
seed_loop(cells, living_cells) ==
    IF living_cells = <<>>
    THEN [ok |-> TRUE, cells |-> cells]
    ELSE LET position == Head(living_cells)
         IN  IF InRange(cells, position[1])
                /\ InRange(cells[position[1] + 1], position[2])
             THEN seed_loop([cells EXCEPT ![position[1] + 1][position[2] + 1] = "Alive"],
                            Tail(living_cells))
             ELSE [ok |-> FALSE, cells |-> <<>>]

\* row and column exchanged when the living cell is written
seed_transposed(size, living_cells) ==
    LET row == [i \in 1..size |-> "Dead"]
        cells == [i \in 1..size |-> row]
    IN  seed_loop(cells, [k \in 1..Len(living_cells) |->
                             <<living_cells[k][2], living_cells[k][1]>>])

seed(size, living_cells) ==
    LET row == [i \in 1..size |-> "Dead"]
        cells == [i \in 1..size |-> row]
    IN  seed_loop(cells, living_cells)

\* both loops run over 0..=size
random_grid_inclusive(size, flips) ==
    [r \in 1..(size + 1) |-> [c \in 1..(size + 1) |->
        IF r <= size /\ c <= size /\ flips[r][c] THEN "Alive" ELSE "Dead"]]

\* flips[r][c] is the outcome of the rand::random() call for cell (r-1, c-1)
random_grid(size, flips) ==
    [r \in 1..size |-> [c \in 1..size |->
        IF flips[r][c] THEN "Alive" ELSE "Dead"]]

\* the last cell of every row is not pushed
next_generation_short_rows(cells) ==
    LET new == [r \in 1..Len(cells) |-> [c \in 1..(Len(cells[r]) - 1) |->
                   state_based_on_neighbours(<<r - 1, c - 1>>, cells, cells[r][c])]]
    IN  [ok |-> TRUE, cells |-> new]

\* One new row per row and one new cell per cell, each from the input cells.
next_generation(cells) ==
    LET new == [r \in 1..Len(cells) |-> [c \in 1..Len(cells[r]) |->
                   state_based_on_neighbours(<<r - 1, c - 1>>, cells, cells[r][c])]]
    IN  [ok |-> \A r \in 1..Len(new) : \A c \in 1..Len(new[r]) : new[r][c] # "Panic",
         cells |-> new]

(* ------------------------------------------------------------ the tests *)

blinker_start ==
    << <<"Dead", "Alive", "Dead">>,
       <<"Dead", "Alive", "Dead">>,
       <<"Dead", "Alive", "Dead">> >>

blinker_end ==
    << <<"Dead", "Dead", "Dead">>,
       <<"Alive", "Alive", "Alive">>,
       <<"Dead", "Dead", "Dead">> >>

(* --------------------------------------------------------------- inputs *)

SeqsUpTo(S, n) == UNION {[1..k -> S] : k \in 0..n}

Coords == (0..MaxSize) \X (0..MaxSize)

BlockCells == << <<1, 1>>, <<1, 2>>, <<2, 1>>, <<2, 2>> >>

\* the calls of seed: every size and short list within the bounds (coordinates
\* up to MaxSize, so out-of-range ones occur for every size), and the block
SeedInputs ==
    ((0..MaxSize) \X SeqsUpTo(Coords, MaxSeedLen)) \cup {<<4, BlockCells>>}

NoOrigin == [kind |-> "none", size |-> 0, living_cells |-> <<>>]

(* ---------------------------------------------------------------- state *)

Init ==
    /\ grid = <<>>
    /\ phase = "start"
    /\ origin = NoOrigin
    /\ ticks = 0
    /\ prev = <<>>
    /\ pc = "idle"
    /\ new_cells = <<>>
    /\ new_row = <<>>

\* Grid::seed(size, living_cells): the grid, or a panic that ends the program
Seed ==
    /\ phase = "start"
    /\ \E input \in SeedInputs :
          LET result == seed(input[1], input[2])
          IN  /\ origin' = [kind |-> "seed", size |-> input[1],
                            living_cells |-> input[2]]
              /\ IF result.ok
                 THEN grid' = result.cells /\ phase' = "running"
                 ELSE grid' = grid /\ phase' = "panicked"
    /\ UNCHANGED <<ticks, prev, pc, new_cells, new_row>>

\* Grid::random_grid(size), as MainState::new calls it
RandomGrid ==
    /\ phase = "start"
    /\ \E size \in 0..MaxSize :
          \E flips \in [1..size -> [1..size -> BOOLEAN]] :
              /\ grid' = random_grid(size, flips)
              /\ origin' = [kind |-> "random", size |-> size, living_cells |-> <<>>]
    /\ phase' = "running"
    /\ UNCHANGED <<ticks, prev, pc, new_cells, new_row>>

\* MainState::update: self.grid = self.grid.next_generation()
Update ==
    /\ phase = "running"
    /\ ticks < MaxTicks
    /\ \E next_gen \in {next_generation(grid)} :
          IF next_gen.ok
          THEN grid' = next_gen.cells /\ phase' = phase
          ELSE grid' = grid /\ phase' = "panicked"
    /\ prev' = grid
    /\ ticks' = ticks + 1
    /\ UNCHANGED <<origin, pc, new_cells, new_row>>

Next == Seed \/ RandomGrid \/ Update

Spec == Init /\ [][Next]_vars

(* ------------------------------------ next_generation, one push per step *)

\* the cell is computed from a grid in which the states already pushed in this
\* call have replaced the input's (an update in place)
pushed_state_in_place(cells, built_cells, built_row, row_idx, col_idx) ==
    LET seen == [r \in 1..Len(cells) |-> [c \in 1..Len(cells[r]) |->
                    IF r <= Len(built_cells) THEN built_cells[r][c]
                    ELSE IF r = Len(built_cells) + 1 /\ c <= Len(built_row)
                         THEN built_row[c]
                         ELSE cells[r][c]]]
    IN  state_based_on_neighbours(<<row_idx, col_idx>>, seen,
                                  cells[row_idx + 1][col_idx + 1])

\* the argument of new_row.push: state_based_on_neighbours((row_idx, col_idx),
\* &self.cells, state), with new_cells and new_row in scope but not read
pushed_state(cells, built_cells, built_row, row_idx, col_idx) ==
    state_based_on_neighbours(<<row_idx, col_idx>>, cells,
                              cells[row_idx + 1][col_idx + 1])

\* update calls self.grid.next_generation(): let mut new_cells = Vec::new()
CallNextGeneration ==
    /\ phase = "running"
    /\ pc = "idle"
    /\ ticks < MaxCalls
    /\ new_cells' = <<>>
    /\ new_row' = <<>>
    /\ prev' = grid
    /\ pc' = "rows"
    /\ UNCHANGED <<grid, phase, origin, ticks>>

\* the outer loop takes the next row: let mut new_row = Vec::new()
BeginRow ==
    /\ pc = "rows"
    /\ Len(new_cells) < Len(grid)
    /\ new_row' = <<>>
    /\ pc' = "cols"
    /\ UNCHANGED <<grid, phase, origin, ticks, prev, new_cells>>

\* the inner loop takes the next cell: new_row.push(..)
PushCell ==
    /\ pc = "cols"
    /\ Len(new_row) < Len(grid[Len(new_cells) + 1])
    /\ LET state == pushed_state(grid, new_cells, new_row,
                                 Len(new_cells), Len(new_row))
       IN  IF state = "Panic"
           THEN /\ phase' = "panicked"
                /\ pc' = "idle"
                /\ new_row' = new_row
           ELSE /\ new_row' = Append(new_row, state)
                /\ UNCHANGED <<phase, pc>>
    /\ UNCHANGED <<grid, origin, ticks, prev, new_cells>>

\* the inner loop is over: new_cells.push(new_row)
PushRow ==
    /\ pc = "cols"
    /\ Len(new_row) = Len(grid[Len(new_cells) + 1])
    /\ new_cells' = Append(new_cells, new_row)
    /\ new_row' = <<>>
    /\ pc' = "rows"
    /\ UNCHANGED <<grid, phase, origin, ticks, prev>>

\* the outer loop is over: Grid { cells: new_cells } is returned as next_gen
Return ==
    /\ pc = "rows"
    /\ Len(new_cells) = Len(grid)
    /\ pc' = "returned"
    /\ UNCHANGED <<grid, phase, origin, ticks, prev, new_cells, new_row>>

\* self.grid = next_gen
AssignGrid ==
    /\ pc = "returned"
    /\ grid' = new_cells
    /\ new_cells' = <<>>
    /\ ticks' = ticks + 1
    /\ pc' = "idle"
    /\ UNCHANGED <<phase, origin, prev, new_row>>

NextScan ==
    \/ Seed
    \/ RandomGrid
    \/ CallNextGeneration
    \/ BeginRow
    \/ PushCell
    \/ PushRow
    \/ Return
    \/ AssignGrid

SpecScan == Init /\ [][NextScan]_vars

(* ================================================================ claims *)

\* the cell (r, c) of a grid G, rows and columns counted from 0
Cell(G, r, c) == G[r + 1][c + 1]

Rows(G) == 0..(Len(G) - 1)

OnGrid(G, r, c) == r \in Rows(G) /\ c \in Rows(G)

IsSquare(G, n) ==
    /\ Len(G) = n
    /\ \A i \in 1..Len(G) : Len(G[i]) = n /\ \A j \in 1..n : G[i][j] \in State

Offsets ==
    {<<-1, 0>>, <<-1, 1>>, <<0, 1>>, <<1, 1>>, <<1, 0>>, <<1, -1>>, <<0, -1>>, <<-1, -1>>}

\* the number of Alive cells of G among the 8 positions around (r, c)
AliveAround(G, r, c) ==
    Cardinality({d \in Offsets : /\ OnGrid(G, r + d[1], c + d[2])
                                 /\ Cell(G, r + d[1], c + d[2]) = "Alive"})

\* an update has run: prev is its input G and grid is next_generation(G)
Advanced == phase = "running" /\ ticks > 0

\* the rule of the game for the cell (r, c) of the generation G
LifeRule(G, r, c) ==
    LET k == AliveAround(G, r, c)
    IN  IF \/ Cell(G, r, c) = "Alive" /\ k \in {2, 3}
           \/ Cell(G, r, c) = "Dead" /\ k = 3
        THEN "Alive"
        ELSE "Dead"

(* ---- C1 ---- *)

\* C1: after next_generation, the cell (r, c) of the new grid is Alive exactly
\* when the cell was Alive in the input with 2 or 3 Alive cells around it, or
\* Dead in the input with exactly 3; in every other case it is Dead.
C1_LifeRule ==
    Advanced =>
        \A r \in Rows(prev) : \A c \in Rows(prev) :
            Cell(grid, r, c) = LifeRule(prev, r, c)

\* a 3x3 input with a birth, a survival, a death by overcrowding and Dead cells
\* that stay Dead with 2 and with 4 Alive cells around them
C1_Witness ==
    /\ Advanced
    /\ Len(prev) = 3
    /\ \E r \in Rows(prev), c \in Rows(prev) :
          Cell(prev, r, c) = "Dead" /\ AliveAround(prev, r, c) = 3
          /\ Cell(grid, r, c) = "Alive"
    /\ \E r \in Rows(prev), c \in Rows(prev) :
          Cell(prev, r, c) = "Dead" /\ AliveAround(prev, r, c) = 2
          /\ Cell(grid, r, c) = "Dead"
    /\ \E r \in Rows(prev), c \in Rows(prev) :
          Cell(prev, r, c) = "Dead" /\ AliveAround(prev, r, c) = 4
          /\ Cell(grid, r, c) = "Dead"
    /\ \E r \in Rows(prev), c \in Rows(prev) :
          Cell(prev, r, c) = "Alive" /\ AliveAround(prev, r, c) \in {2, 3}
          /\ Cell(grid, r, c) = "Alive"
    /\ \E r \in Rows(prev), c \in Rows(prev) :
          Cell(prev, r, c) = "Alive" /\ AliveAround(prev, r, c) > 3
          /\ Cell(grid, r, c) = "Dead"

(* ---- C2 ---- *)

IsCorner(G, r, c) == r \in {0, Len(G) - 1} /\ c \in {0, Len(G) - 1}

IsBoundary(G, r, c) == r \in {0, Len(G) - 1} \/ c \in {0, Len(G) - 1}

\* C2: in next_generation a neighbour position outside the grid counts as Dead
\* whatever the cell on the opposite side holds, a corner cell counts at most
\* 3 Alive neighbours and a non-corner boundary cell at most 5.
C2_NoWraparound ==
    Advanced =>
        \A r \in Rows(prev) : \A c \in Rows(prev) :
            /\ \A i \in DOMAIN neighbours_directions :
                  LET t == translation(neighbours_directions[i])
                  IN  ~OnGrid(prev, r + t[1], c + t[2])
                         => neighbours_state(<<r, c>>, prev, t) = "Dead"
            /\ IsCorner(prev, r, c) => nmb_alive_neighbours(<<r, c>>, prev) <= 3
            /\ (IsBoundary(prev, r, c) /\ ~IsCorner(prev, r, c))
                  => nmb_alive_neighbours(<<r, c>>, prev) <= 5

\* the 3x3 grid that is entirely Alive: every off-grid position has an Alive
\* cell on the opposite side, the corners count 3 and survive, the edges count 5
C2_Witness ==
    /\ Advanced
    /\ Len(prev) = 3
    /\ \A r \in Rows(prev) : \A c \in Rows(prev) : Cell(prev, r, c) = "Alive"
    /\ nmb_alive_neighbours(<<0, 0>>, prev) = 3
    /\ nmb_alive_neighbours(<<0, 1>>, prev) = 5
    /\ Cell(grid, 0, 0) = "Alive"
    /\ Cell(grid, 0, 1) = "Dead"

(* ---- C3 ---- *)

\* C3: after seed(size, ..) or random_grid(size) and any number of updates the
\* grid has size rows of size cells, each Alive or Dead.
C3_SizeInvariant ==
    phase = "running" => IsSquare(grid, origin.size)

C3_Witness ==
    /\ phase = "running"
    /\ ticks >= 2
    /\ origin.kind = "seed"
    /\ origin.size = 3
    /\ Len(origin.living_cells) = 2
    /\ IsSquare(grid, 3)

(* ---- C4 ---- *)

\* C4: on a square grid of size n >= 0 every neighbour lookup either answers
\* Dead for a position off the grid or indexes a row and a column in [0, n);
\* no lookup is out of range, and next_generation returns a grid of size n.
C4_NoOutOfRange ==
    /\ phase = "panicked" => origin.kind = "seed" /\ ticks = 0
    /\ phase = "running" =>
          /\ \A r \in Rows(grid) : \A c \in Rows(grid) :
                \A i \in DOMAIN neighbours_directions :
                   LET t == translation(neighbours_directions[i])
                       looked == neighbours_state(<<r, c>>, grid, t)
                   IN  IF OnGrid(grid, r + t[1], c + t[2])
                       THEN looked = Cell(grid, r + t[1], c + t[2])
                       ELSE looked = "Dead"
          /\ ticks > 0 => IsSquare(grid, Len(prev))

C4_Witness ==
    /\ Advanced
    /\ IsSquare(prev, 3)
    /\ IsSquare(grid, 3)
    /\ Cell(prev, 2, 2) = "Alive"

(* ---- C5 ---- *)

\* C5: within one next_generation call the input grid stays as it was when the
\* call began (prev), up to and including the return, and every state pushed
\* (the cells of the row being built, and all rows built whenever a row is
\* complete) is the rule applied to the input generation at that position,
\* never to a state pushed earlier in the call; the returned grid is that map
\* of the input, cell by cell, whatever the scan order.
C5_Simultaneous ==
    pc # "idle" =>
        /\ grid = prev
        /\ pc \in {"rows", "returned"} =>
              \A i \in 1..Len(new_cells) :
                 /\ Len(new_cells[i]) = Len(prev[i])
                 /\ \A j \in 1..Len(new_cells[i]) :
                       new_cells[i][j] = LifeRule(prev, i - 1, j - 1)
        /\ pc = "cols" =>
              \A j \in 1..Len(new_row) :
                 new_row[j] = LifeRule(prev, Len(new_cells), j - 1)
        /\ pc = "returned" => Len(new_cells) = Len(prev)

\* the call has returned the horizontal blinker and the input is still the
\* vertical one: the middle row was computed after the top row was pushed
C5_Witness ==
    /\ pc = "returned"
    /\ grid = blinker_start
    /\ new_cells = blinker_end

(* ---- C6 ---- *)

SeedInRange ==
    /\ origin.kind = "seed"
    /\ origin.size > 0
    /\ \A k \in DOMAIN origin.living_cells :
          /\ origin.living_cells[k][1] < origin.size
          /\ origin.living_cells[k][2] < origin.size

SeedOutOfRange ==
    /\ origin.kind = "seed"
    /\ \E k \in DOMAIN origin.living_cells :
          \/ origin.living_cells[k][1] >= origin.size
          \/ origin.living_cells[k][2] >= origin.size

\* C6: seed(size, list) with size > 0 and every coordinate in range returns a
\* size x size grid whose cell is Alive exactly when its coordinate is in the
\* list (duplicates and the empty list included).
C6_SeedExact ==
    (SeedInRange /\ ticks = 0) =>
        /\ phase = "running"
        /\ IsSquare(grid, origin.size)
        /\ \A r \in Rows(grid) : \A c \in Rows(grid) :
              Cell(grid, r, c) = "Alive"
                 <=> \E k \in DOMAIN origin.living_cells :
                        origin.living_cells[k] = <<r, c>>

\* a list that names an off-diagonal cell twice
C6_Witness ==
    /\ SeedInRange
    /\ ticks = 0
    /\ phase = "running"
    /\ origin.size = 3
    /\ origin.living_cells = << <<0, 2>>, <<0, 2>> >>
    /\ Cell(grid, 0, 2) = "Alive"
    /\ Cell(grid, 2, 0) = "Dead"

(* ---- C7 ---- *)

\* C7: seed with a coordinate outside [0, size) is reported as an
\* InvalidCoordinate error value: it neither panics nor returns a grid.
C7_InvalidCoordinateReported ==
    (SeedOutOfRange /\ origin.size > 0) => phase \notin {"panicked", "running"}

(* ---- C8 ---- *)

\* C8 as stated: construction with size 0 is reported as an InvalidSize error
\* and no grid is produced.
C8_InvalidSizeReported ==
    (origin.kind # "none" /\ origin.size = 0) => phase \notin {"panicked", "running"}

\* C8 as amended: construction with size 0 reports no error; random_grid(0)
\* and seed(0, []) return the grid with no rows, which every update leaves as
\* it is, and seed(0, list) with a non-empty list panics on the out-of-range
\* write.
C8_SizeZeroEmptyGrid ==
    (origin.kind # "none" /\ origin.size = 0) =>
        IF origin.living_cells = <<>>
        THEN phase = "running" /\ grid = <<>>
        ELSE phase = "panicked"

C8_Witness ==
    /\ origin.kind = "random"
    /\ origin.size = 0
    /\ phase = "running"
    /\ grid = <<>>
    /\ ticks = 0

(* ---- C9 ---- *)

\* C9: one next_generation call maps the vertical blinker (column 1 of a 3x3
\* grid Alive) to the horizontal one (row 1 Alive, rows 0 and 2 Dead).
C9_Blinker ==
    (ticks > 0 /\ prev = blinker_start) => (phase = "running" /\ grid = blinker_end)

C9_Witness ==
    /\ ticks = 1
    /\ origin.kind = "random"
    /\ prev = blinker_start
    /\ \A c \in 0..2 : Cell(grid, 1, c) = "Alive"

(* ---- C10 ---- *)

BlockGrid ==
    << <<"Dead", "Dead", "Dead", "Dead">>,
       <<"Dead", "Alive", "Alive", "Dead">>,
       <<"Dead", "Alive", "Alive", "Dead">>,
       <<"Dead", "Dead", "Dead", "Dead">> >>

FromBlock == origin = [kind |-> "seed", size |-> 4, living_cells |-> BlockCells]

\* C10: the grid seed(4, [(1,1),(1,2),(2,1),(2,2)]) is the 2x2 block, and
\* after every number of update ticks the held grid is still that block.
C10_BlockStill ==
    FromBlock => (phase = "running" /\ grid = BlockGrid)

C10_Witness ==
    /\ FromBlock
    /\ ticks >= 2
    /\ prev = BlockGrid
    /\ grid = BlockGrid

====
